---- MODULE Spec2Model ----
(***************************************************************************)
(* Model of script.py: the contact-list cleaner.  A table is a sequence of *)
(* rows (records); a string is a sequence of one-character strings, so     *)
(* that strip(), lower(), split("@") and string ordering are computed.     *)
(* A ratio count/total is the pair <<count, total>>.                       *)
(***************************************************************************)
EXTENDS Integers, Sequences, FiniteSets, TLC

VARIABLES pc, df, prospect_companies, df_marked, files, err

vars == <<pc, df, prospect_companies, df_marked, files, err>>

(* ------------------------------ bounds --------------------------------- *)

\* largest number of rows of the input CSV
MaxRows == 3

(* ----------------------------- constants ------------------------------- *)

\* DOMINANT_MIN_SHARE = 0.6, kept as the ratio 6/10
DOMINANT_MIN_SHARE_NUM == 6
DOMINANT_MIN_SHARE_DEN == 10

(* --------------------------- missing values ---------------------------- *)

\* pandas' missing value of a cell (float nan); no string equals it
NaN == <<"NaN">>

\* Python's None; pandas treats it as missing as well
None == NaN

notna(v) == v # NaN

(* ------------------------------ strings -------------------------------- *)

\* code point of a character (Python compares strings by code point)
Ord(c) ==
  CASE c = " " -> 32
    [] c = "@" -> 64
    [] c = "A" -> 65
    [] c = "X" -> 88
    [] c = "a" -> 97
    [] c = "n" -> 110
    [] c = "u" -> 117
    [] c = "x" -> 120

\* str.lower() on one character
LowerChar(c) ==
  CASE c = "A" -> "a"
    [] c = "C" -> "c"
    [] c = "E" -> "e"
    [] c = "X" -> "x"
    [] OTHER -> c

str_lower(s) == [i \in 1..Len(s) |-> LowerChar(s[i])]

IsSpace(c) == c = " "

RECURSIVE lstrip(_)
lstrip(s) ==
  IF s # <<>> /\ IsSpace(Head(s)) THEN lstrip(Tail(s)) ELSE s

RECURSIVE rstrip(_)
rstrip(s) ==
  IF s # <<>> /\ IsSpace(s[Len(s)]) THEN rstrip(SubSeq(s, 1, Len(s) - 1)) ELSE s

\* str.strip()
str_strip(s) == rstrip(lstrip(s))

\* "@" in email
Contains(s, c) == \E i \in 1..Len(s) : s[i] = c

\* email.split("@")[-1]: what follows the last "@"
SplitLast(s, c) ==
  LET at == {i \in 1..Len(s) : s[i] = c}
      last == CHOOSE i \in at : \A j \in at : j <= i
  IN  IF at = {} THEN s ELSE SubSeq(s, last + 1, Len(s))

\* a < b for Python strings
RECURSIVE StrLess(_, _)
StrLess(a, b) ==
  IF b = <<>> THEN FALSE
  ELSE IF a = <<>> THEN TRUE
  ELSE IF Head(a) # Head(b) THEN Ord(Head(a)) < Ord(Head(b))
  ELSE StrLess(Tail(a), Tail(b))

\* Series.astype(str) on one cell: a missing float prints as "nan"
astype_str(v) == IF v = NaN THEN <<"n", "a", "n">> ELSE v

(* --------------------------- extract_domain ---------------------------- *)

\* the variant without the test for "@"
extract_domain_any_string(email) ==
  IF email = NaN THEN None
  ELSE str_lower(str_strip(SplitLast(email, "@")))

extract_domain(email) ==
  IF email = NaN \/ ~Contains(email, "@") THEN None
  ELSE str_lower(str_strip(SplitLast(email, "@")))

(* ------------------------- DataFrame operations ------------------------ *)

\* the rows of t whose column k has value v
RECURSIVE RowsWith(_, _, _)
RowsWith(t, k, v) ==
  IF t = <<>> THEN <<>>
  ELSE (IF Head(t)[k] = v THEN <<Head(t)>> ELSE <<>>) \o RowsWith(Tail(t), k, v)

\* the (k1, k2) pairs of the rows where neither is missing: groupby drops
\* the rows with a missing key (dropna=True)
GroupKeys(t, k1, k2) ==
  {<<t[i][k1], t[i][k2]>> : i \in {j \in DOMAIN t : notna(t[j][k1]) /\ notna(t[j][k2])}}

KeyLess(a, b) ==
  \/ StrLess(a[1], b[1])
  \/ a[1] = b[1] /\ StrLess(a[2], b[2])

\* groupby sorts the group keys (sort=True)
RECURSIVE SortKeys(_)
SortKeys(S) ==
  IF S = {} THEN <<>>
  ELSE LET m == CHOOSE k \in S : \A o \in S : o = k \/ KeyLess(k, o)
       IN  <<m>> \o SortKeys(S \ {m})

\* the group keys in order of first appearance in t (what sort=False gives)
RECURSIVE KeysInEncounterOrder(_, _, _)
KeysInEncounterOrder(t, k1, k2) ==
  IF t = <<>> THEN <<>>
  ELSE LET n == Len(t)
           front == SubSeq(t, 1, n - 1)
           key == <<t[n][k1], t[n][k2]>>
           rest == KeysInEncounterOrder(front, k1, k2)
       IN  IF key \in GroupKeys(t, k1, k2) /\ key \notin GroupKeys(front, k1, k2)
           THEN Append(rest, key) ELSE rest

GroupRows(t, k1, k2, ks) ==
  [i \in 1..Len(ks) |->
     (k1 :> ks[i][1]) @@ (k2 :> ks[i][2]) @@
     ("count" :> Cardinality({j \in DOMAIN t :
                                t[j][k1] = ks[i][1] /\ t[j][k2] = ks[i][2]}))]

\* the variant with sort=False
groupby_size_unsorted(t, k1, k2) ==
  GroupRows(t, k1, k2, KeysInEncounterOrder(t, k1, k2))

\* t.groupby([k1, k2]).size().reset_index(name="count")
groupby_size(t, k1, k2) ==
  GroupRows(t, k1, k2, SortKeys(GroupKeys(t, k1, k2)))

RECURSIVE SumCount(_)
SumCount(t) == IF t = <<>> THEN 0 ELSE Head(t)["count"] + SumCount(Tail(t))

\* the distinct values of column k, in order of first appearance
RECURSIVE Uniques(_, _)
Uniques(t, k) ==
  IF t = <<>> THEN <<>>
  ELSE LET n == Len(t)
           rest == Uniques(SubSeq(t, 1, n - 1), k)
       IN  IF \E i \in 1..(n - 1) : t[i][k] = t[n][k] THEN rest
           ELSE Append(rest, t[n][k])

\* the variant that sums the counts of the whole table for every value of k
groupby_sum_ungrouped(stats, k, name) ==
  LET ks == Uniques(stats, k)
  IN  [i \in 1..Len(ks) |-> (k :> ks[i]) @@ (name :> SumCount(stats))]

\* stats.groupby(k)["count"].sum().rename(name): one row per value of k
groupby_sum(stats, k, name) ==
  LET ks == Uniques(stats, k)
  IN  [i \in 1..Len(ks) |->
         (k :> ks[i]) @@ (name :> SumCount(RowsWith(stats, k, ks[i])))]

\* left.merge(right, on=key): the inner join, in the order of the left rows
RECURSIVE merge_inner(_, _, _)
merge_inner(left, right, key) ==
  IF left = <<>> THEN <<>>
  ELSE LET l == Head(left)
           matches == RowsWith(right, key, l[key])
       IN  [i \in 1..Len(matches) |-> l @@ matches[i]]
             \o merge_inner(Tail(left), right, key)

\* left.merge(right, on=key, how="left"): a left row with no match is kept
\* once, its right columns missing; a left row with n matches appears n times
RECURSIVE merge_left(_, _, _, _)
merge_left(left, right, key, nulls) ==
  IF left = <<>> THEN <<>>
  ELSE LET l == Head(left)
           matches == RowsWith(right, key, l[key])
       IN  (IF matches = <<>> THEN <<l @@ nulls>>
            ELSE [i \in 1..Len(matches) |-> l @@ matches[i]])
             \o merge_left(Tail(left), right, key, nulls)

\* the variant with the count ascending
RowBeforeAsc(a, b, k) ==
  \/ StrLess(a[k], b[k])
  \/ a[k] = b[k] /\ a["count"] < b["count"]

\* the sort order of sort_values([k, "count"], ascending=[True, False])
RowBefore(a, b, k) ==
  \/ StrLess(a[k], b[k])
  \/ a[k] = b[k] /\ a["count"] > b["count"]

RECURSIVE InsertSorted(_, _, _)
InsertSorted(sorted, row, k) ==
  IF sorted = <<>> THEN <<row>>
  ELSE IF RowBefore(row, Head(sorted), k) THEN <<row>> \o sorted
  ELSE <<Head(sorted)>> \o InsertSorted(Tail(sorted), row, k)

\* t.sort_values([k, "count"], ascending=[True, False]): a stable sort, rows
\* with equal keys keep the order they have in t
RECURSIVE sort_values(_, _)
sort_values(t, k) ==
  IF t = <<>> THEN <<>>
  ELSE InsertSorted(sort_values(SubSeq(t, 1, Len(t) - 1), k), t[Len(t)], k)

\* the variant that keeps every row
drop_duplicates_keep_all(t, k) == t

\* t.drop_duplicates(k): the first row of each value of k
RECURSIVE drop_duplicates(_, _)
drop_duplicates(t, k) ==
  IF t = <<>> THEN <<>>
  ELSE LET n == Len(t)
           rest == drop_duplicates(SubSeq(t, 1, n - 1), k)
       IN  IF \E i \in 1..(n - 1) : t[i][k] = t[n][k] THEN rest
           ELSE Append(rest, t[n])

(* ------------------ find_dominant_company_per_domain ------------------- *)

find_dominant_company_per_domain(t) ==
  LET stats == groupby_size(t, "domain", "Company Name")
      total_per_domain == groupby_sum(stats, "domain", "total_domain")
      merged == merge_inner(stats, total_per_domain, "domain")
      shared == [i \in 1..Len(merged) |->
                   merged[i] @@
                   ("share" :> <<merged[i]["count"], merged[i]["total_domain"]>>)]
      first == drop_duplicates(sort_values(shared, "domain"), "domain")
  IN  [i \in 1..Len(first) |->
         ("domain" :> first[i]["domain"]) @@
         ("dominant_company" :> first[i]["Company Name"]) @@
         ("dominant_share" :> first[i]["share"])]

(* ------------------- find_canonical_company_by_name -------------------- *)

find_canonical_company_by_name(t) ==
  LET temp == [i \in 1..Len(t) |-> str_strip(astype_str(t[i]["Company Name"]))]
      frame == [i \in 1..Len(t) |->
                  ("Company Name" :> temp[i]) @@
                  ("company_norm" :> str_lower(temp[i]))]
      name_stats == groupby_size(frame, "company_norm", "Company Name")
      first == drop_duplicates(sort_values(name_stats, "company_norm"),
                               "company_norm")
  IN  [i \in 1..Len(first) |->
         ("company_norm" :> first[i]["company_norm"]) @@
         ("canonical_company" :> first[i]["Company Name"])]

(* ---------------------------- mark_suspects ---------------------------- *)

\* the texts the four reasons begin with (written without accents)
DominantText == "Empresa diferente da dominante para o dominio"
ProspectText == "Empresa nao esta na lista de empresas prospectadas"
OnceText == "Empresa aparece apenas uma vez no arquivo"
CanonicalText == "Nome da empresa difere da forma mais frequente no arquivo"

\* the reason strings, kept as their parts
ReasonDominant(domain, dominant_company, pct) ==
  [text |-> DominantText,
   domain |-> domain, company |-> dominant_company, pct |-> pct]

ReasonProspect ==
  [text |-> ProspectText,
   domain |-> <<>>, company |-> <<>>, pct |-> 0]

ReasonOnce ==
  [text |-> OnceText,
   domain |-> <<>>, company |-> <<>>, pct |-> 0]

ReasonCanonical(canonical_company) ==
  [text |-> CanonicalText,
   domain |-> <<>>, company |-> canonical_company, pct |-> 0]

\* the separator "; "
Sep == [text |-> "; ", domain |-> <<>>, company |-> <<>>, pct |-> 0]

\* f"{share:.0%}": the share in percent, rounded half to even
Percent(share) ==
  LET q == (100 * share[1]) \div share[2]
      r == (100 * share[1]) % share[2]
  IN  IF 2 * r > share[2] THEN q + 1
      ELSE IF 2 * r = share[2] THEN q + (q % 2)
      ELSE q

\* "; ".join(reasons) if reasons else ""
RECURSIVE Join(_)
Join(reasons) ==
  IF reasons = <<>> THEN <<>>
  ELSE IF Len(reasons) = 1 THEN reasons
  ELSE <<Head(reasons), Sep>> \o Join(Tail(reasons))

\* dominant_share >= DOMINANT_MIN_SHARE
ShareAtLeastMin(share) ==
  share[1] * DOMINANT_MIN_SHARE_DEN >= DOMINANT_MIN_SHARE_NUM * share[2]

\* df["company_clean"].value_counts().get(company, 0)
company_counts_get(t, company) ==
  Cardinality({i \in DOMAIN t : t[i]["company_clean"] = company})

\* lines 118-125
CheckDominant(st, row) ==
  IF /\ notna(row["domain"])
     /\ notna(row["dominant_company"])
     /\ notna(row["dominant_share"])
     /\ row["company_clean"] # row["dominant_company"]
     /\ ShareAtLeastMin(row["dominant_share"])
  THEN [is_suspect |-> TRUE,
        reasons |-> Append(st.reasons,
                           ReasonDominant(row["domain"], row["dominant_company"],
                                          Percent(row["dominant_share"]))),
        suggest |-> row["dominant_company"]]
  ELSE st

\* lines 127-130
CheckProspect(st, row, prospect) ==
  IF prospect # {} /\ row["company_clean"] \notin prospect
  THEN [st EXCEPT !.is_suspect = TRUE,
                  !.reasons = Append(st.reasons, ReasonProspect)]
  ELSE st

\* the variant that records the reason and leaves the flag as it is
CheckOnce_reason_only(st, row, t) ==
  IF company_counts_get(t, row["company_clean"]) = 1
  THEN [st EXCEPT !.reasons = Append(st.reasons, ReasonOnce)]
  ELSE st

\* lines 132-134
CheckOnce(st, row, t) ==
  IF company_counts_get(t, row["company_clean"]) = 1
  THEN [st EXCEPT !.is_suspect = TRUE,
                  !.reasons = Append(st.reasons, ReasonOnce)]
  ELSE st

\* the variant in which the canonical spelling replaces an earlier suggestion
CheckCanonical_last_wins(st, row) ==
  IF notna(row["canonical_company"])
     /\ row["company_clean"] # row["canonical_company"]
  THEN [is_suspect |-> TRUE,
        reasons |-> Append(st.reasons, ReasonCanonical(row["canonical_company"])),
        suggest |-> row["canonical_company"]]
  ELSE st

\* lines 137-144
CheckCanonical(st, row) ==
  IF notna(row["canonical_company"])
     /\ row["company_clean"] # row["canonical_company"]
  THEN [is_suspect |-> TRUE,
        reasons |-> Append(st.reasons, ReasonCanonical(row["canonical_company"])),
        suggest |-> IF st.suggest = None THEN row["canonical_company"]
                    ELSE st.suggest]
  ELSE st

\* the variant that stops at the first check that triggers
LoopBody_first_only(row, t, prospect) ==
  LET st0 == [is_suspect |-> FALSE, reasons |-> <<>>, suggest |-> None]
      st1 == CheckDominant(st0, row)
      st2 == IF st1.is_suspect THEN st1 ELSE CheckProspect(st1, row, prospect)
      st3 == IF st2.is_suspect THEN st2 ELSE CheckOnce(st2, row, t)
      st4 == IF st3.is_suspect THEN st3 ELSE CheckCanonical(st3, row)
  IN  ("is_suspect" :> st4.is_suspect) @@
      ("suspect_reasons" :> Join(st4.reasons)) @@
      ("suggested_company" :> st4.suggest)

\* the body of the loop over the rows, lines 108-148
LoopBody(row, t, prospect) ==
  LET st0 == [is_suspect |-> FALSE, reasons |-> <<>>, suggest |-> None]
      st1 == CheckDominant(st0, row)
      st2 == CheckProspect(st1, row, prospect)
      st3 == CheckOnce(st2, row, t)
      st4 == CheckCanonical(st3, row)
  IN  ("is_suspect" :> st4.is_suspect) @@
      ("suspect_reasons" :> Join(st4.reasons)) @@
      ("suggested_company" :> st4.suggest)

\* lines 92-94: the derived columns
DeriveColumns(t) ==
  [i \in 1..Len(t) |->
     LET clean == str_strip(astype_str(t[i]["Company Name"]))
     IN  t[i] @@
         ("domain" :> extract_domain(t[i]["Email"])) @@
         ("company_clean" :> clean) @@
         ("company_norm" :> str_lower(clean))]

mark_suspects(t, prospect) ==
  LET d1 == DeriveColumns(t)
      dominant_df == find_dominant_company_per_domain(d1)
      d2 == merge_left(d1, dominant_df, "domain",
                       ("dominant_company" :> NaN) @@ ("dominant_share" :> NaN))
      canonical_df == find_canonical_company_by_name(d2)
      d3 == merge_left(d2, canonical_df, "company_norm",
                       ("canonical_company" :> NaN))
  IN  [i \in 1..Len(d3) |-> d3[i] @@ LoopBody(d3[i], d1, prospect)]

(* ----------------------- load_prospect_companies ----------------------- *)

\* the column names a prospect table is recognised by (line 21)
NameColumns ==
  { <<"c", "o", "m", "p", "a", "n", "y", " ", "n", "a", "m", "e">>,
    <<"c", "o", "m", "p", "a", "n", "y">>,
    <<"e", "m", "p", "r", "e", "s", "a">> }

\* p.suffix.lower()
SuffixLower(suffix) ==
  CASE suffix = ".TXT" -> ".txt"
    [] suffix = ".CSV" -> ".csv"
    [] OTHER -> suffix

\* the indices of the columns whose name is recognised, leftmost first
ColCandidates(columns) ==
  {i \in 1..Len(columns) : str_lower(str_strip(columns[i])) \in NameColumns}

\* arg: the --empresas-prospectadas argument and the file it names.
\* The result is [raised, companies]; raised is the ValueError of line 23.
load_prospect_companies(arg) ==
  IF ~arg.given THEN [raised |-> FALSE, companies |-> {}]
  ELSE IF ~arg.exists THEN [raised |-> FALSE, companies |-> {}]
  ELSE IF SuffixLower(arg.suffix) = ".txt"
  THEN [raised |-> FALSE,
        companies |-> {str_strip(arg.lines[i]) :
                         i \in {j \in 1..Len(arg.lines) :
                                  str_strip(arg.lines[j]) # <<>>}}]
  ELSE LET col_candidates == ColCandidates(arg.columns)
           col == CHOOSE i \in col_candidates : \A j \in col_candidates : i <= j
       IN  IF col_candidates = {} THEN [raised |-> TRUE, companies |-> {}]
           ELSE [raised |-> FALSE,
                 companies |-> {str_strip(astype_str(arg.cells[i][col])) :
                                  i \in {j \in 1..Len(arg.cells) :
                                           notna(arg.cells[j][col])}}]

(* -------------------------------- main --------------------------------- *)

\* the marker of a path that could not be built
Invalid == <<"ValueError">>

\* Path(name).with_suffix(suffix) for a name without a suffix of its own;
\* a name and a suffix are sequences of name parts
with_suffix(name, suffix) ==
  IF (suffix # <<>> /\ Head(suffix) # ".") \/ suffix = <<".">> THEN Invalid
  ELSE IF name = <<>> THEN Invalid
  ELSE name \o suffix

\* --saida-base, at its default
saida_base == <<"apollo">>

TreatedSuffix == <<".", "contatos_tratados", ".", "csv">>
SuspectsSuffix == <<".", "contatos_suspeitos_isolados", ".", "csv">>
PacSuffix == <<"pac", ".", "csv">>

\* lines 195-208: the corrected table
df_pac(t) ==
  [i \in 1..Len(t) |->
     ("Email" :> t[i]["Email"]) @@
     ("Company Name" :>
        IF notna(t[i]["suggested_company"]) /\ t[i]["suggested_company"] # <<>>
        THEN t[i]["suggested_company"]
        ELSE t[i]["Company Name"])]

\* df_marked[df_marked["is_suspect"]]
RECURSIVE OnlySuspects(_)
OnlySuspects(t) ==
  IF t = <<>> THEN <<>>
  ELSE (IF Head(t)["is_suspect"] THEN <<Head(t)>> ELSE <<>>)
         \o OnlySuspects(Tail(t))

(* ------------------------------- inputs -------------------------------- *)

\* the Email cells of the input: missing, without "@", with two "@",
\* capitals and a trailing blank, and with an empty domain
Emails ==
  { NaN,
    <<"u">>,
    <<"@", "@", "X", " ">>,
    <<"u", "@">> }

\* the Company Name cells of the input
Companies ==
  { NaN,
    <<"A">>,
    <<"a">>,
    <<"A", " ">> }

Records ==
  {("Email" :> e) @@ ("Company Name" :> c) : e \in Emails, c \in Companies}

Tables == UNION {[1..n -> Records] : n \in 1..MaxRows}

NoArg ==
  [given |-> FALSE, exists |-> FALSE, suffix |-> "", lines |-> <<>>,
   columns |-> <<>>, cells |-> <<>>]

ProspectArgs ==
  { NoArg,
    [NoArg EXCEPT !.given = TRUE],
    [NoArg EXCEPT !.given = TRUE, !.exists = TRUE, !.suffix = ".TXT",
                  !.lines = << <<" ", "A">>, <<" ">>, <<"A", " ">> >>],
    [NoArg EXCEPT !.given = TRUE, !.exists = TRUE, !.suffix = ".csv",
                  !.columns = << <<"i", "d">>,
                                 <<" ", "E", "m", "p", "r", "e", "s", "a">> >>,
                  !.cells = << << <<"u">>, <<"A", " ">> >>,
                               << <<"u">>, NaN >>,
                               << <<"u">>, <<" ", "A">> >> >>],
    [NoArg EXCEPT !.given = TRUE, !.exists = TRUE, !.suffix = ".csv",
                  !.columns = << <<"n", "a", "m", "e">> >>,
                  !.cells = << << <<"A">> >> >>] }

(* --------------------------- the run of main --------------------------- *)

Init ==
  /\ pc = "start"
  /\ df = <<>>
  /\ prospect_companies = {}
  /\ df_marked = <<>>
  /\ files = <<>>
  /\ err = "none"

Abort(e) ==
  /\ pc' = "aborted"
  /\ err' = e

\* lines 166-168
CheckInput ==
  /\ pc = "start"
  /\ \E exists \in BOOLEAN :
       IF exists THEN pc' = "opened" /\ err' = err
       ELSE Abort("FileNotFoundError")
  /\ UNCHANGED <<df, prospect_companies, df_marked, files>>

\* lines 170-176
ReadCsv ==
  /\ pc = "opened"
  /\ \E t \in Tables, has_required_cols \in BOOLEAN :
       IF has_required_cols
       THEN df' = t /\ pc' = "read" /\ err' = err
       ELSE df' = df /\ Abort("ValueError: Faltam colunas")
  /\ UNCHANGED <<prospect_companies, df_marked, files>>

\* lines 178-180
LoadProspect ==
  /\ pc = "read"
  /\ \E arg \in ProspectArgs :
       LET r == load_prospect_companies(arg)
       IN  IF r.raised
           THEN prospect_companies' = prospect_companies
                /\ Abort("ValueError: coluna de empresa")
           ELSE prospect_companies' = r.companies
                /\ pc' = "loaded" /\ err' = err
  /\ UNCHANGED <<df, df_marked, files>>

\* line 182
MarkSuspects ==
  /\ pc = "loaded"
  /\ df_marked' = mark_suspects(df, prospect_companies)
  /\ pc' = "marked"
  /\ UNCHANGED <<df, prospect_companies, files, err>>

\* to_csv(path): the write succeeds or raises
ToCsv(path, content, next) ==
  \E written \in BOOLEAN :
    IF written
    THEN files' = (path :> content) @@ files /\ pc' = next /\ err' = err
    ELSE files' = files /\ Abort("OSError")

\* lines 184-189
WriteTreated ==
  /\ pc = "marked"
  /\ LET treated_path == with_suffix(saida_base, TreatedSuffix)
         suspects_path == with_suffix(saida_base, SuspectsSuffix)
     IN  IF treated_path = Invalid \/ suspects_path = Invalid
         THEN files' = files /\ Abort("ValueError: Invalid suffix")
         ELSE ToCsv(treated_path, df_marked, "treated")
  /\ UNCHANGED <<df, prospect_companies, df_marked>>

\* lines 190-192
WriteSuspects ==
  /\ pc = "treated"
  /\ ToCsv(with_suffix(saida_base, SuspectsSuffix), OnlySuspects(df_marked),
           "suspects")
  /\ UNCHANGED <<df, prospect_companies, df_marked>>

\* lines 195-214
WritePac ==
  /\ pc = "suspects"
  /\ LET pac_path == with_suffix(saida_base, PacSuffix)
     IN  IF pac_path = Invalid
         THEN files' = files /\ Abort("ValueError: Invalid suffix")
         ELSE ToCsv(pac_path, df_pac(df_marked), "done")
  /\ UNCHANGED <<df, prospect_companies, df_marked>>

Next ==
  \/ CheckInput
  \/ ReadCsv
  \/ LoadProspect
  \/ MarkSuspects
  \/ WriteTreated
  \/ WriteSuspects
  \/ WritePac

Spec == Init /\ [][Next]_vars

(* ===================== what the output is checked for ================== *)

\* mark_suspects has returned
Classified ==
  \/ pc \in {"marked", "treated", "suspects", "done"}
  \/ pc = "aborted" /\ err \in {"OSError", "ValueError: Invalid suffix"}

Rows == IF Classified THEN DOMAIN df_marked ELSE {}

\* the output row i carries the reason that begins with text
HasReason(i, text) ==
  \E j \in DOMAIN df_marked[i]["suspect_reasons"] :
    df_marked[i]["suspect_reasons"][j].text = text

Clean(i) == df_marked[i]["company_clean"]

\* the number of rows of the whole table with the trimmed company name c
CleanTotal(c) == Cardinality({k \in DOMAIN df_marked : Clean(k) = c})

\* the rows that share the domain d
DomainRows(d) == {k \in DOMAIN df_marked : df_marked[k]["domain"] = d}

(* ---------------------------------- C1 --------------------------------- *)

\* C1: every classified record is suspect if and only if its reasons are
\* not empty, that is, suspect_reasons is "" exactly when is_suspect is false
C1_SuspectIffReasons ==
  \A i \in Rows :
    df_marked[i]["is_suspect"] <=> (df_marked[i]["suspect_reasons"] # <<>>)

C1_Witness ==
  /\ Classified
  /\ \E i, j \in Rows :
       /\ df_marked[i]["is_suspect"]
       /\ Len(df_marked[i]["suspect_reasons"]) >= 3
       /\ ~df_marked[j]["is_suspect"]
       /\ df_marked[j]["suspect_reasons"] = <<>>

(* ---------------------------------- C2 --------------------------------- *)

\* the number of rows of domain d with the trimmed company name c
CleanInDomain(d, c) == Cardinality({k \in DomainRows(d) : Clean(k) = c})

\* c is a most used trimmed company name of domain d
MostUsedInDomain(d, c) ==
  /\ \E k \in DomainRows(d) : Clean(k) = c
  /\ \A k \in DomainRows(d) : CleanInDomain(d, Clean(k)) <= CleanInDomain(d, c)

\* c is the dominant company of d over (domain, company_clean) groups, its
\* share is at least DOMINANT_MIN_SHARE, and row i names another company
DominanceTriggers(i, c) ==
  LET d == df_marked[i]["domain"]
  IN  /\ notna(d)
      /\ MostUsedInDomain(d, c)
      /\ Clean(i) # c
      /\ CleanInDomain(d, c) * DOMINANT_MIN_SHARE_DEN
           >= DOMINANT_MIN_SHARE_NUM * Cardinality(DomainRows(d))

\* C2: the domain-dominance check triggers exactly when the domain is present,
\* company_clean differs from the dominant company of the domain and the
\* dominant share is at least 0.6, dominance being counted over trimmed
\* company names; a flagged record is suggested the dominant company
C2_DominanceOverCleanNames ==
  \A i \in Rows :
    /\ HasReason(i, DominantText)
         <=> \E k \in Rows : DominanceTriggers(i, Clean(k))
    /\ \A k \in Rows :
         DominanceTriggers(i, Clean(k))
           => df_marked[i]["suggested_company"] = Clean(k)

(* ---------------------------------- C3 --------------------------------- *)

\* C3: the suggestion is the dominant company if the domain-dominance check
\* triggered, otherwise the canonical company if the canonical-spelling check
\* triggered, otherwise absent
C3_SuggestionPriority ==
  \A i \in Rows :
    df_marked[i]["suggested_company"] =
      IF HasReason(i, DominantText) THEN df_marked[i]["dominant_company"]
      ELSE IF HasReason(i, CanonicalText) THEN df_marked[i]["canonical_company"]
      ELSE None

C3_Witness ==
  /\ Classified
  /\ \E i \in Rows :
       /\ HasReason(i, DominantText) /\ HasReason(i, CanonicalText)
       /\ df_marked[i]["dominant_company"] # df_marked[i]["canonical_company"]
       /\ df_marked[i]["suggested_company"] = df_marked[i]["dominant_company"]

(* ---------------------------------- C4 --------------------------------- *)

\* the trimmed spellings that lowercase to the normalized name n
Spellings(n) ==
  {Clean(k) : k \in {j \in DOMAIN df_marked : df_marked[j]["company_norm"] = n}}

\* C4: the canonical company of a normalized name is one of its spellings,
\* used at least as often as every other spelling of it, and the
\* canonical-spelling check triggers exactly for the records that are
\* spelled otherwise
C4_CanonicalIsMostFrequent ==
  \A i \in Rows :
    LET n == df_marked[i]["company_norm"]
        canonical_company == df_marked[i]["canonical_company"]
    IN  /\ n = str_lower(Clean(i))
        /\ canonical_company \in Spellings(n)
        /\ str_lower(canonical_company) = n
        /\ \A c \in Spellings(n) : CleanTotal(c) <= CleanTotal(canonical_company)
        /\ \A k \in Rows :
             df_marked[k]["company_norm"] = n
               => df_marked[k]["canonical_company"] = canonical_company
        /\ HasReason(i, CanonicalText) <=> (Clean(i) # canonical_company)
        /\ CleanTotal(Clean(i)) < CleanTotal(canonical_company)
             => HasReason(i, CanonicalText)

C4_Witness ==
  /\ Classified
  /\ \E i, j \in Rows :
       /\ df_marked[i]["company_norm"] = df_marked[j]["company_norm"]
       /\ CleanTotal(Clean(i)) < CleanTotal(Clean(j))
       /\ HasReason(i, CanonicalText)
       /\ df_marked[i]["canonical_company"] = Clean(j)
       /\ ~HasReason(j, CanonicalText)

(* ---------------------------------- C5 --------------------------------- *)

\* the untrimmed company names used in domain d
NamesInDomain(d) ==
  {df_marked[k]["Company Name"] :
     k \in {j \in DomainRows(d) : notna(df_marked[j]["Company Name"])}}

\* the number of rows of domain d with the untrimmed company name c
NameInDomain(d, c) ==
  Cardinality({k \in DomainRows(d) : df_marked[k]["Company Name"] = c})

\* the names of domain d with the largest count
TiedInDomain(d) ==
  {c \in NamesInDomain(d) :
     \A o \in NamesInDomain(d) : NameInDomain(d, o) <= NameInDomain(d, c)}

\* the spellings of the normalized name n with the largest count
TiedSpellings(n) ==
  {c \in Spellings(n) : \A o \in Spellings(n) : CleanTotal(o) <= CleanTotal(c)}

\* the first row of the input whose untrimmed name is in S, within domain d
FirstInDomain(d, S) ==
  CHOOSE k \in DomainRows(d) :
    /\ df_marked[k]["Company Name"] \in S
    /\ \A j \in DomainRows(d) : df_marked[j]["Company Name"] \in S => k <= j

\* the first row of the input whose trimmed name is in S
FirstSpelled(S) ==
  CHOOSE k \in DOMAIN df_marked :
    /\ Clean(k) \in S
    /\ \A j \in DOMAIN df_marked : Clean(j) \in S => k <= j

\* the string of S that sorts before all others
Smallest(S) == CHOOSE c \in S : \A o \in S : o = c \/ StrLess(c, o)

\* C5 as stated: among names tied for the largest count, both resolvers
\* choose the one whose record comes first in the input
C5_TieGoesToFirstEncountered ==
  \A i \in Rows :
    /\ notna(df_marked[i]["dominant_company"])
         => df_marked[i]["dominant_company"] =
              df_marked[FirstInDomain(df_marked[i]["domain"],
                                      TiedInDomain(df_marked[i]["domain"]))]
                ["Company Name"]
    /\ df_marked[i]["canonical_company"] =
         Clean(FirstSpelled(TiedSpellings(df_marked[i]["company_norm"])))

\* C5 amended: among names tied for the largest count, both resolvers
\* choose the name that sorts first as a string, whatever the order of the
\* input rows
C5_TieGoesToSmallestName ==
  \A i \in Rows :
    /\ notna(df_marked[i]["dominant_company"])
         => df_marked[i]["dominant_company"] =
              Smallest(TiedInDomain(df_marked[i]["domain"]))
    /\ df_marked[i]["canonical_company"] =
         Smallest(TiedSpellings(df_marked[i]["company_norm"]))

\* a tie in a domain and a tie in a normalized name, each won by a name
\* that is not the one met first
C5_Witness ==
  /\ Classified
  /\ \E i, j \in Rows :
       /\ notna(df_marked[i]["dominant_company"])
       /\ Cardinality(TiedInDomain(df_marked[i]["domain"])) >= 2
       /\ df_marked[i]["dominant_company"] #
            df_marked[FirstInDomain(df_marked[i]["domain"],
                                    TiedInDomain(df_marked[i]["domain"]))]
              ["Company Name"]
       /\ Cardinality(TiedSpellings(df_marked[j]["company_norm"])) >= 2
       /\ df_marked[j]["canonical_company"] #
            Clean(FirstSpelled(TiedSpellings(df_marked[j]["company_norm"])))

(* ---------------------------------- C6 --------------------------------- *)

\* C6: a dominant share count/total_domain has 0 < count <= total_domain,
\* count being the rows of the domain that name the dominant company and
\* total_domain the sum of the counts of all company groups of the domain
C6_ShareWithinDomain ==
  \A i \in Rows :
    LET d == df_marked[i]["domain"]
        share == df_marked[i]["dominant_share"]
    IN  notna(share) =>
          /\ 0 < share[1] /\ share[1] <= share[2]
          /\ share[1] = NameInDomain(d, df_marked[i]["dominant_company"])
          /\ share[2] =
               Cardinality({k \in DomainRows(d) :
                              notna(df_marked[k]["Company Name"])})

C6_Witness ==
  /\ Classified
  /\ \E i, j \in Rows :
       /\ notna(df_marked[i]["dominant_share"])
       /\ notna(df_marked[j]["dominant_share"])
       /\ df_marked[i]["domain"] # df_marked[j]["domain"]
       /\ df_marked[i]["dominant_share"][1] < df_marked[i]["dominant_share"][2]

(* ---------------------------------- C7 --------------------------------- *)

\* d is what follows the last "@" of e, trimmed and lowercased
IsDomainOf(d, e) ==
  \E k \in 1..Len(e) :
    /\ e[k] = "@"
    /\ \A j \in (k + 1)..Len(e) : e[j] # "@"
    /\ d = str_lower(str_strip(SubSeq(e, k + 1, Len(e))))

\* C7: the domain of a value that is no string or has no "@" is absent,
\* otherwise it is what follows the last "@", trimmed and lowercased; a
\* record without a domain has no dominant company, is never flagged by the
\* domain-dominance check, and is suspect only by one of the other checks
C7_AbsentDomainIsNotSuspect ==
  \A i \in Rows :
    LET email == df_marked[i]["Email"]
        domain == df_marked[i]["domain"]
    IN  /\ (email = NaN \/ \A k \in 1..Len(email) : email[k] # "@")
             => domain = None
        /\ (email # NaN /\ \E k \in 1..Len(email) : email[k] = "@")
             => notna(domain) /\ IsDomainOf(domain, email)
        /\ domain = None =>
             /\ df_marked[i]["dominant_company"] = NaN
             /\ df_marked[i]["dominant_share"] = NaN
             /\ ~HasReason(i, DominantText)
             /\ df_marked[i]["is_suspect"] =>
                  \/ HasReason(i, ProspectText)
                  \/ HasReason(i, OnceText)
                  \/ HasReason(i, CanonicalText)

C7_Witness ==
  /\ Classified
  /\ \E i, j, k \in Rows :
       /\ df_marked[i]["Email"] = NaN
       /\ df_marked[j]["Email"] = <<"u">>
       /\ df_marked[i]["domain"] = None /\ df_marked[j]["domain"] = None
       /\ ~df_marked[i]["is_suspect"] /\ ~df_marked[j]["is_suspect"]
       /\ df_marked[k]["Email"] = <<"@", "@", "X", " ">>
       /\ df_marked[k]["domain"] = <<"x">>

(* ---------------------------------- C8 --------------------------------- *)

OutputPaths ==
  { saida_base \o TreatedSuffix, saida_base \o SuspectsSuffix,
    saida_base \o PacSuffix }

\* C8: no output is written before the table is classified, and a run that
\* has ended has written all three outputs or none of them; an aborted run
\* has written none
C8_AllOutputsOrNone ==
  /\ DOMAIN files # {} => Classified
  /\ pc = "aborted" => DOMAIN files = {}
  /\ pc \in {"aborted", "done"} => DOMAIN files \in {{}, OutputPaths}

(* ---------------------------------- C9 --------------------------------- *)

\* the position of a reason in the fixed order of the four checks
Rank(text) ==
  CASE text = DominantText -> 1
    [] text = ProspectText -> 2
    [] text = OnceText -> 3
    [] text = CanonicalText -> 4
    [] OTHER -> 0

\* C9: the reasons of a record are one per triggered check, in the order
\* dominance, allow-list, singleton, canonical spelling, joined by "; ";
\* each check triggers on its own condition, whatever the others did
C9_OneReasonPerCheckInOrder ==
  \A i \in Rows :
    LET sr == df_marked[i]["suspect_reasons"]
    IN  /\ sr = <<>> \/ Len(sr) % 2 = 1
        /\ \A j \in DOMAIN sr :
             IF j % 2 = 0 THEN sr[j] = Sep ELSE Rank(sr[j].text) > 0
        /\ \A j, k \in DOMAIN sr :
             (j % 2 = 1 /\ k % 2 = 1 /\ j < k)
               => Rank(sr[j].text) < Rank(sr[k].text)
        /\ HasReason(i, DominantText)
             <=> /\ notna(df_marked[i]["domain"])
                 /\ notna(df_marked[i]["dominant_company"])
                 /\ Clean(i) # df_marked[i]["dominant_company"]
                 /\ ShareAtLeastMin(df_marked[i]["dominant_share"])
        /\ HasReason(i, ProspectText)
             <=> (prospect_companies # {} /\ Clean(i) \notin prospect_companies)
        /\ HasReason(i, OnceText) <=> (CleanTotal(Clean(i)) = 1)
        /\ HasReason(i, CanonicalText)
             <=> (Clean(i) # df_marked[i]["canonical_company"])

\* a record that all four checks flag, and one flagged as a singleton only
C9_Witness ==
  /\ Classified
  /\ \E i \in Rows :
       /\ Len(df_marked[i]["suspect_reasons"]) = 7
       /\ df_marked[i]["suspect_reasons"][1].text = DominantText
       /\ df_marked[i]["suspect_reasons"][3].text = ProspectText
       /\ df_marked[i]["suspect_reasons"][5].text = OnceText
       /\ df_marked[i]["suspect_reasons"][7].text = CanonicalText

(* --------------------------------- C10 --------------------------------- *)

\* no two rows of t have the same value in column k
UniqueOn(t, k) == \A i, j \in DOMAIN t : t[i][k] = t[j][k] => i = j

\* C10: the output has one row per input record, in input order, with Email
\* and Company Name unchanged; the dominant table has at most one row per
\* domain and the canonical table exactly one row per company_norm
C10_OneRowPerRecord ==
  Classified =>
    /\ Len(df_marked) = Len(df)
    /\ \A i \in DOMAIN df :
         /\ i \in DOMAIN df_marked
         /\ df_marked[i]["Email"] = df[i]["Email"]
         /\ df_marked[i]["Company Name"] = df[i]["Company Name"]
    /\ LET d1 == DeriveColumns(df)
           dominant_df == find_dominant_company_per_domain(d1)
           canonical_df == find_canonical_company_by_name(d1)
       IN  /\ UniqueOn(dominant_df, "domain")
           /\ UniqueOn(canonical_df, "company_norm")
           /\ \A i \in DOMAIN d1 :
                \E j \in DOMAIN canonical_df :
                  canonical_df[j]["company_norm"] = d1[i]["company_norm"]

\* a domain with two company names, and a record without a domain
C10_Witness ==
  /\ Classified
  /\ Len(df_marked) = MaxRows
  /\ \E i, j, k \in Rows :
       /\ notna(df_marked[i]["domain"])
       /\ df_marked[i]["domain"] = df_marked[j]["domain"]
       /\ df_marked[i]["Company Name"] # df_marked[j]["Company Name"]
       /\ notna(df_marked[i]["Company Name"])
       /\ notna(df_marked[j]["Company Name"])
       /\ df_marked[i]["company_norm"] = df_marked[j]["company_norm"]
       /\ df_marked[k]["domain"] = None

====
